---- MODULE Spec2Model ----
(***************************************************************************)
(* Capture queues and analysis pipeline of ShellPer.                       *)
(*                                                                         *)
(* ScreenshotHelper (electron/ScreenshotHelper.ts) owns the two capture    *)
(* queues and the routing view; ProcessingHelper (ProcessingHelper.ts)     *)
(* runs the initial pipeline (processScreenshots) and the debug pipeline   *)
(* (processExtraScreenshots); main.ts holds the shared state (view,        *)
(* problemInfo) and the reset helpers.                                     *)
(*                                                                         *)
(* The program runs on one JavaScript event loop: a handler runs without   *)
(* interruption up to its next await on an external completion (OCR, an    *)
(* HTTP call, a file-system call, a renderer round trip).  Every action    *)
(* below is one such uninterrupted segment.  Awaits that complete in the   *)
(* microtask queue (await of an already settled promise) are not yield     *)
(* points and are folded into the segment.                                 *)
(*                                                                         *)
(* JavaScript arrays are objects: processScreenshots iterates the array    *)
(* object ScreenshotHelper holds, so in-place changes (shift, push) are    *)
(* seen by a running iteration, while a re-assignment (= [], filter)       *)
(* leaves the iteration on the old object.  A run's `arr` is the content   *)
(* of the object it iterates and `live` says that this object still is     *)
(* ScreenshotHelper.screenshotQueue.                                       *)
(*                                                                         *)
(* The main window is taken to exist throughout (window management is an   *)
(* external collaborator), so every getMainWindow() guard passes.          *)
(*                                                                         *)
(* The renderer (src/_pages/Solutions.tsx) keeps its own view and a cache  *)
(* of the last solution.  IPC events reach it in the order they were sent  *)
(* and the main process never reads the renderer's state, so the renderer  *)
(* state is a fold of its handlers over the events sent; it is computed in *)
(* the segment that sends them.                                            *)
(***************************************************************************)
EXTENDS Integers, Sequences, FiniteSets, TLC

\* ---------------------------------------------------------------- bounds
\* Number of distinct capture paths the environment may hand in.
NumPaths == 3
\* Number of pipeline runs (initial and debug together) started in a behaviour.
MaxRuns == 3
\* Largest length of the secondary queue explored (the code has no bound).
MaxExtra == 2
\* Largest number of fs.unlink calls of clearQueues outstanding at a time.
MaxUnlinks == 4

\* ------------------------------------------------------- program constants
MAX_SCREENSHOTS == 2

\* Calls of takeScreenshot followed at the same time.
MaxCapturing == 2

Paths == 1..NumPaths
RunIds == 1..MaxRuns
Views == {"queue", "solutions", "debug"}

\* `null` for an AbortController reference; a controller is named by the run
\* that created it.
NoController == 0

\* state.problemInfo = null
NullInfo == [null |-> TRUE]

VARIABLES
  screenshotQueue,        \* ScreenshotHelper.screenshotQueue
  extraScreenshotQueue,   \* ScreenshotHelper.extraScreenshotQueue
  view,                   \* state.view and ScreenshotHelper.view (setView writes both)
  problemInfo,            \* state.problemInfo
  hasDebugged,            \* state.hasDebugged
  currentProcessingAbortController,
  currentExtraProcessingAbortController,
  runs,                   \* the activations of processScreenshots / processExtraScreenshots
  nruns,                  \* number of activations so far
  pendingDeletes,         \* deleteScreenshot calls awaiting fs.promises.unlink
  pendingUnlinks,         \* number of fs.unlink calls of clearQueues whose callback has not run
  ncaptures,              \* capture files written so far by takeScreenshot
  emitted,                \* events and replies sent to the renderer by the last segment
  renderer,               \* the renderer: its view and whether a solution is cached
  normalized,             \* per source, the file at its path in the normalized directory
  normalizeResult,        \* what the last normalizeImage call did and returned
  screenshotInProgress,   \* state.screenshotInProgress
  capturing,              \* takeScreenshot calls waiting for their capture to return
  isScreenshotInProgress  \* the renderer's flag (QueueCommands), set by the event

vars == <<screenshotQueue, extraScreenshotQueue, view, problemInfo, hasDebugged,
          currentProcessingAbortController, currentExtraProcessingAbortController,
          runs, nruns, pendingDeletes, pendingUnlinks, ncaptures, emitted, renderer,
          normalized, normalizeResult, screenshotInProgress, capturing,
          isScreenshotInProgress>>

\* ------------------------------------------------------------- helpers
Includes(q, x) == \E i \in 1..Len(q) : q[i] = x

Filter(q, x) == SelectSeq(q, LAMBDA y : y # x)

Event(ev, run, by) == [ev |-> ev, run |-> run, by |-> by]

IdleRun ==
  [kind |-> "none", pc |-> "idle", arr |-> <<>>, live |-> FALSE, idx |-> 0,
   cur |-> 0, data |-> <<>>, startQueue |-> <<>>, cpi |-> NullInfo,
   hasSignal |-> FALSE, aborted |-> FALSE, superseded |-> FALSE,
   resetSeen |-> FALSE, startInfo |-> NullInfo, sent |-> <<>>]

\* A finished activation: nothing of it is referenced any more.
DoneRun(kind) == [IdleRun EXCEPT !.kind = kind, !.pc = "done"]

InFlight(r) == runs[r].kind # "none" /\ runs[r].pc # "done"

\* No normalizeImage call has been made.
NoCall == [impl |-> "none", input |-> 0, path |-> "none", steps |-> <<>>,
           rejected |-> FALSE]

\* --------------------------------------------------------------- renderer
\* The page Solutions.tsx is shown, and its listeners are registered, while
\* the renderer's view is not `queue`.
SolutionsMounted(st) == st.view # "queue"

\* The renderer shows the solutions page once a ProblemInfo is published.
onProblemExtracted(st) == [st EXCEPT !.view = "solutions"]

\* Solutions.tsx onSolutionSuccess (lines 316-382): the parsed solution is
\* put in the query cache under "solution".
onSolutionSuccess(st) ==
  IF SolutionsMounted(st) THEN [st EXCEPT !.solution = TRUE] ELSE st

\* Solutions.tsx onSolutionError (lines 383-400): without a cached solution
\* the view goes back to `queue`.
onSolutionError(st) ==
  IF SolutionsMounted(st) /\ ~st.solution THEN [st EXCEPT !.view = "queue"] ELSE st

\* Solutions.tsx onResetView (lines 244-262) removes the cached solution;
\* the reset returns the renderer to the queue page.
onResetView(st) == [view |-> "queue", solution |-> FALSE]

\* The listener an event reaches.
Deliver(st, e) ==
  CASE e.ev = "PROBLEM_EXTRACTED" -> onProblemExtracted(st)
    [] e.ev = "SOLUTION_SUCCESS" -> onSolutionSuccess(st)
    [] e.ev = "INITIAL_SOLUTION_ERROR" -> onSolutionError(st)
    [] e.ev = "RESET_VIEW" -> onResetView(st)
    [] OTHER -> st

\* The renderer after the events of one segment, in the order sent.
Render(st, evs) ==
  LET After[i \in 0..Len(evs)] ==
        IF i = 0 THEN st ELSE Deliver(After[i - 1], evs[i])
  IN After[Len(evs)]

\* webContents.send for every event of a segment.
Send(evs) ==
  /\ emitted' = evs
  /\ renderer' = Render(renderer, evs)

Init ==
  /\ screenshotQueue = <<>>
  /\ extraScreenshotQueue = <<>>
  /\ view = "queue"
  /\ problemInfo = NullInfo
  /\ hasDebugged = FALSE
  /\ currentProcessingAbortController = NoController
  /\ currentExtraProcessingAbortController = NoController
  /\ runs = [r \in RunIds |-> IdleRun]
  /\ nruns = 0
  /\ pendingDeletes = {}
  /\ pendingUnlinks = 0
  /\ ncaptures = 0
  /\ emitted = <<>>
  /\ renderer = [view |-> "queue", solution |-> FALSE]
  /\ normalized = [p \in Paths |-> "absent"]
  /\ normalizeResult = NoCall
  /\ screenshotInProgress = FALSE
  /\ capturing = 0
  /\ isScreenshotInProgress = FALSE

\* ------------------------------------------------------ ScreenshotHelper
PushPrimaryNoEviction(q, filepath) == Append(q, filepath)

PushPrimaryEvictsNewest(q, filepath) ==
  Append(IF Len(q) >= MAX_SCREENSHOTS THEN SubSeq(q, 1, Len(q) - 1) ELSE q, filepath)

\* The primary queue after the capacity check and the push (lines 63-69).
PushPrimary(q, filepath) ==
  Append(IF Len(q) >= MAX_SCREENSHOTS THEN Tail(q) ELSE q, filepath)

\* The duplicate test of addToScreenshotQueue (line 57).
IsDuplicate(filepath) == Includes(screenshotQueue, filepath)

\* shift() and push() change the array object in place: every iteration
\* still on that object sees the new content.
AliasUpdate(q) ==
  [r \in RunIds |-> IF runs[r].live THEN [runs[r] EXCEPT !.arr = q] ELSE runs[r]]

\* A re-assignment of this.screenshotQueue: running iterations keep the old object.
AliasDetach ==
  [r \in RunIds |-> [runs[r] EXCEPT !.live = FALSE]]

RoutesToPrimaryOrDebug(v) == v \in {"queue", "debug"}

\* The routing test of addToScreenshotQueue (line 60).
RoutesToPrimary(v) == v = "queue"

\* The effect of addToScreenshotQueue on the queues (lines 55-77).
Enqueue(filepath) ==
  IF ~IsDuplicate(filepath)
  THEN IF RoutesToPrimary(view)
       THEN /\ screenshotQueue' = PushPrimary(screenshotQueue, filepath)
            /\ runs' = AliasUpdate(PushPrimary(screenshotQueue, filepath))
            /\ UNCHANGED extraScreenshotQueue
       ELSE /\ extraScreenshotQueue' = Append(extraScreenshotQueue, filepath)
            /\ UNCHANGED <<screenshotQueue, runs>>
  ELSE UNCHANGED <<screenshotQueue, extraScreenshotQueue, runs>>

\* A call of the public method with any path.
addToScreenshotQueue(filepath) ==
  /\ Len(extraScreenshotQueue) < MaxExtra \/ view = "queue" \/ IsDuplicate(filepath)
  /\ Enqueue(filepath)
  /\ Send(<<>>)
  /\ UNCHANGED <<view, problemInfo, hasDebugged, currentProcessingAbortController,
                 currentExtraProcessingAbortController, nruns, pendingDeletes, pendingUnlinks, ncaptures>>
  /\ UNCHANGED <<normalized, normalizeResult, screenshotInProgress, capturing,
                 isScreenshotInProgress>>

\* main.ts takeScreenshot, success branch (lines 1095-1104): the capture
\* file has a fresh name (timestamp and uuid) and is added to the queue.
CaptureTaken ==
  /\ ncaptures < NumPaths
  /\ Len(extraScreenshotQueue) < MaxExtra \/ view = "queue"
  /\ ncaptures' = ncaptures + 1
  /\ Enqueue(ncaptures + 1)
  /\ Send(<<>>)
  /\ UNCHANGED <<view, problemInfo, hasDebugged, currentProcessingAbortController,
                 currentExtraProcessingAbortController, nruns, pendingDeletes, pendingUnlinks>>
  /\ UNCHANGED <<normalized, normalizeResult, screenshotInProgress, capturing,
                 isScreenshotInProgress>>

\* --------------------------------------------------------- takeScreenshot
\* main.ts takeScreenshot (lines 1064-1116), from the call to the await of
\* the capture (line 1087) and from there to its return.
\* The empty string that a debounced call returns (line 1067).
NoPath == 0

\* notifyRenderer(SCREENSHOT_IN_PROGRESS, v)
ProgressEvent(v) ==
  [ev |-> "SCREENSHOT_IN_PROGRESS", run |-> 0, by |-> "takeScreenshot", value |-> v]

\* What the call gives back: a path (the empty string is NoPath) or a throw.
TakeReply(filePath, threw) ==
  [ev |-> "takeScreenshot", run |-> 0, by |-> "takeScreenshot", value |-> filePath,
   threw |-> threw]

\* The listener of QueueCommands (part_002, lines 20-27): the flag takes
\* the value of the last event.
ShowProgress(cur, evs) ==
  LET Shown[i \in 0..Len(evs)] ==
        IF i = 0 THEN cur
        ELSE IF evs[i].ev = "SCREENSHOT_IN_PROGRESS" THEN evs[i].value
        ELSE Shown[i - 1]
  IN Shown[Len(evs)]

\* Events and reply of one segment of takeScreenshot.
Notify(evs) ==
  /\ Send(evs)
  /\ isScreenshotInProgress' = ShowProgress(isScreenshotInProgress, evs)

DebouncedNever == FALSE

\* The test of line 1065.
Debounced == screenshotInProgress

\* The call: it returns "" at once while a capture is in progress;
\* otherwise it notifies the renderer, sets the flag (lines 1071-1072) and
\* waits for the capture.
takeScreenshotCall ==
  /\ IF Debounced
     THEN /\ Notify(<<TakeReply(NoPath, FALSE)>>)
          /\ UNCHANGED <<screenshotInProgress, capturing>>
     ELSE /\ capturing < MaxCapturing
          /\ Notify(<<ProgressEvent(TRUE)>>)
          /\ screenshotInProgress' = TRUE
          /\ capturing' = capturing + 1
  /\ UNCHANGED <<screenshotQueue, extraScreenshotQueue, view, problemInfo, hasDebugged,
                 currentProcessingAbortController, currentExtraProcessingAbortController,
                 runs, nruns, pendingDeletes, pendingUnlinks, ncaptures,
                 normalized, normalizeResult>>

\* The capture returned a file (lines 1095-1104): it is added to the queue,
\* the flag is cleared and the renderer is told.
captureSucceeds ==
  /\ capturing > 0
  /\ ncaptures < NumPaths
  /\ Len(extraScreenshotQueue) < MaxExtra \/ view = "queue"
  /\ ncaptures' = ncaptures + 1
  /\ Enqueue(ncaptures + 1)
  /\ screenshotInProgress' = FALSE
  /\ capturing' = capturing - 1
  /\ Notify(<<ProgressEvent(FALSE), TakeReply(ncaptures + 1, FALSE)>>)
  /\ UNCHANGED <<view, problemInfo, hasDebugged, currentProcessingAbortController,
                 currentExtraProcessingAbortController, nruns, pendingDeletes,
                 pendingUnlinks, normalized, normalizeResult>>

\* The capture reported no success: the else branch (lines 1105-1108)
\* clears the flag, notifies and throws inside the try, so the catch of
\* lines 1110-1114 clears and notifies again before it rethrows.
FailureEvents == <<ProgressEvent(FALSE), ProgressEvent(FALSE)>>

captureFails ==
  /\ capturing > 0
  /\ screenshotInProgress' = FALSE
  /\ capturing' = capturing - 1
  /\ Notify(FailureEvents \o <<TakeReply(NoPath, TRUE)>>)
  /\ UNCHANGED <<screenshotQueue, extraScreenshotQueue, view, problemInfo, hasDebugged,
                 currentProcessingAbortController, currentExtraProcessingAbortController,
                 runs, nruns, pendingDeletes, pendingUnlinks, ncaptures,
                 normalized, normalizeResult>>

\* Something between the flag and the result threw (showing the window
\* again, for one): the catch of lines 1110-1114 alone.
captureThrows ==
  /\ capturing > 0
  /\ screenshotInProgress' = FALSE
  /\ capturing' = capturing - 1
  /\ Notify(<<ProgressEvent(FALSE), TakeReply(NoPath, TRUE)>>)
  /\ UNCHANGED <<screenshotQueue, extraScreenshotQueue, view, problemInfo, hasDebugged,
                 currentProcessingAbortController, currentExtraProcessingAbortController,
                 runs, nruns, pendingDeletes, pendingUnlinks, ncaptures,
                 normalized, normalizeResult>>

\* main.ts setView: state.view and ScreenshotHelper.view.
setView(v) ==
  /\ view' = v
  /\ Send(<<>>)
  /\ UNCHANGED <<screenshotQueue, extraScreenshotQueue, problemInfo, hasDebugged,
                 currentProcessingAbortController, currentExtraProcessingAbortController,
                 runs, nruns, pendingDeletes, pendingUnlinks, ncaptures>>
  /\ UNCHANGED <<normalized, normalizeResult, screenshotInProgress, capturing,
                 isScreenshotInProgress>>

ClearedQueueKeepsPending(q) == q

\* ScreenshotHelper.clearQueues, lines 87 and 99: the queue is re-assigned to
\* [] right after the fs.unlink calls were issued, whatever they will report.
ClearedQueue(q) == <<>>

\* main.ts clearQueues: ScreenshotHelper.clearQueues (an fs.unlink issued for
\* every queued path, both queues re-assigned), problemInfo = null,
\* setView("queue").
clearQueues ==
  /\ pendingUnlinks + Len(screenshotQueue) + Len(extraScreenshotQueue) <= MaxUnlinks
  /\ pendingUnlinks' = pendingUnlinks + Len(screenshotQueue) + Len(extraScreenshotQueue)
  /\ screenshotQueue' = ClearedQueue(screenshotQueue)
  /\ extraScreenshotQueue' = ClearedQueue(extraScreenshotQueue)
  /\ runs' = AliasDetach
  /\ problemInfo' = NullInfo
  /\ view' = "queue"
  /\ Send(<<>>)
  /\ UNCHANGED <<hasDebugged, currentProcessingAbortController,
                 currentExtraProcessingAbortController, nruns, pendingDeletes, ncaptures>>
  /\ UNCHANGED <<normalized, normalizeResult, screenshotInProgress, capturing,
                 isScreenshotInProgress>>

\* The callback of one fs.unlink of clearQueues (lines 82-85, 92-98): it
\* logs an error, if any, and touches nothing.
unlinkCallback(err) ==
  /\ pendingUnlinks > 0
  /\ pendingUnlinks' = pendingUnlinks - 1
  /\ Send(<<>>)
  /\ UNCHANGED <<screenshotQueue, extraScreenshotQueue, view, problemInfo, hasDebugged,
                 currentProcessingAbortController, currentExtraProcessingAbortController,
                 runs, nruns, pendingDeletes, ncaptures>>
  /\ UNCHANGED <<normalized, normalizeResult, screenshotInProgress, capturing,
                 isScreenshotInProgress>>

\* deleteScreenshot up to its await of fs.promises.unlink.
deleteScreenshotCall(path) ==
  /\ path \notin pendingDeletes
  /\ pendingDeletes' = pendingDeletes \cup {path}
  /\ Send(<<>>)
  /\ UNCHANGED <<screenshotQueue, extraScreenshotQueue, view, problemInfo, hasDebugged,
                 currentProcessingAbortController, currentExtraProcessingAbortController,
                 runs, nruns, pendingUnlinks, ncaptures>>
  /\ UNCHANGED <<normalized, normalizeResult, screenshotInProgress, capturing,
                 isScreenshotInProgress>>

RemovesReferenceAlways(unlinked) == TRUE

\* deleteScreenshot, lines 275-285: the filter is reached only when the
\* awaited unlink did not throw.
RemovesReference(unlinked) == unlinked

\* The value deleteScreenshot resolves to (lines 285, 288), which main.ts
\* hands back to the renderer.
DeleteReply(unlinked) ==
  [ev |-> "deleteScreenshot", run |-> 0, by |-> "deleteScreenshot",
   success |-> unlinked, error |-> ~unlinked]

\* deleteScreenshot after unlink: on success the queue selected by the
\* view at this moment is filtered; on failure nothing is removed.
deleteScreenshotReturn(path, unlinked) ==
  /\ path \in pendingDeletes
  /\ pendingDeletes' = pendingDeletes \ {path}
  /\ IF RemovesReference(unlinked)
     THEN IF view = "queue"
          THEN /\ screenshotQueue' = Filter(screenshotQueue, path)
               /\ runs' = AliasDetach
               /\ UNCHANGED extraScreenshotQueue
          ELSE /\ extraScreenshotQueue' = Filter(extraScreenshotQueue, path)
               /\ UNCHANGED <<screenshotQueue, runs>>
     ELSE UNCHANGED <<screenshotQueue, extraScreenshotQueue, runs>>
  /\ Send(<<DeleteReply(unlinked)>>)
  /\ UNCHANGED <<view, problemInfo, hasDebugged, currentProcessingAbortController,
                 currentExtraProcessingAbortController, nruns, pendingUnlinks, ncaptures>>
  /\ UNCHANGED <<normalized, normalizeResult, screenshotInProgress, capturing,
                 isScreenshotInProgress>>

\* ------------------------------------------------------ ProcessingHelper
\* Ghost: a new run of `kind` starts while earlier runs of that kind are in flight.
MarkSuperseded(kind, rs) ==
  [r \in RunIds |-> IF rs[r].kind = kind /\ rs[r].pc \notin {"idle", "done"}
                    THEN [rs[r] EXCEPT !.superseded = TRUE] ELSE rs[r]]

\* Ghost: a reset happens while runs are in flight.
MarkReset(rs) ==
  [r \in RunIds |-> IF rs[r].pc \notin {"idle", "done"}
                    THEN [rs[r] EXCEPT !.resetSeen = TRUE] ELSE rs[r]]

\* controller.abort() for the controllers in `ctrls`.  A controller is named
\* by the run that created it; the signal of a finished run is referenced by
\* nobody, so only runs in flight record it.
Abort(ctrls, rs) ==
  [r \in RunIds |-> IF r \in ctrls /\ rs[r].pc \notin {"idle", "done"}
                    THEN [rs[r] EXCEPT !.aborted = TRUE] ELSE rs[r]]

\* cancelOngoingRequests: the controllers it aborts (lines 1164-1174).
CancelTargets ==
  {currentProcessingAbortController, currentExtraProcessingAbortController}
    \ {NoController}

\* cancelOngoingRequests: wasCancelled.
WasCancelled ==
  \/ currentProcessingAbortController # NoController
  \/ currentExtraProcessingAbortController # NoController

CancelEventsAlways == <<Event("NO_SCREENSHOTS", 0, "cancelOngoingRequests")>>

\* cancelOngoingRequests: the NO_SCREENSHOTS it sends when something was cancelled.
CancelEvents ==
  IF WasCancelled THEN <<Event("NO_SCREENSHOTS", 0, "cancelOngoingRequests")>> ELSE <<>>

\* The ProblemInfo an initial run publishes.
NewProblemInfo(r) == [run |-> r, extraInfo |-> <<>>, debugged |-> FALSE]

\* processScreenshots, lines 267-270: the controller it aborts before
\* installing its own.
PreviousController ==
  {currentProcessingAbortController} \ {NoController}

\* processScreenshots, line 286: the empty-queue test.
QueueIsEmpty(q) == Len(q) = 0

EmptyQueueEventsStartFirst(r) ==
  <<Event("INITIAL_START", r, "processScreenshots"),
    Event("NO_SCREENSHOTS", r, "processScreenshots")>>

\* processScreenshots, lines 286-292: what it sends when the queue is empty.
EmptyQueueEvents(r) == <<Event("NO_SCREENSHOTS", r, "processScreenshots")>>

QueueAfterReadDrained(q) == <<>>

\* The pipeline only reads the queue: getScreenshotQueue returns the array
\* (line 283) and the for-of loop of line 301 walks it without removing.
QueueAfterRead(q) == q

\* processScreenshots from its call to the first OCR await (or its return
\* on an empty queue).
processScreenshots ==
  /\ nruns < MaxRuns
  /\ LET r == nruns + 1
         rs == MarkSuperseded("initial", Abort(PreviousController, runs))
     IN
     /\ nruns' = r
     /\ currentProcessingAbortController' = r
     /\ IF QueueIsEmpty(screenshotQueue)
        THEN /\ Send(EmptyQueueEvents(r))
             /\ runs' = [rs EXCEPT ![r] = DoneRun("initial")]
             /\ UNCHANGED screenshotQueue
        ELSE /\ Send(<<Event("INITIAL_START", r, "processScreenshots")>>)
             /\ screenshotQueue' = QueueAfterRead(screenshotQueue)
             /\ runs' = [rs EXCEPT ![r] =
                  [IdleRun EXCEPT !.kind = "initial", !.pc = "ocr",
                                  !.arr = screenshotQueue, !.live = TRUE,
                                  !.idx = 0, !.cur = screenshotQueue[1],
                                  !.startQueue = screenshotQueue,
                                  !.hasSignal = TRUE,
                                  !.sent = <<"INITIAL_START">>]]
  /\ UNCHANGED <<extraScreenshotQueue, view, problemInfo, hasDebugged,
                 currentExtraProcessingAbortController, pendingDeletes, pendingUnlinks, ncaptures>>
  /\ UNCHANGED <<normalized, normalizeResult, screenshotInProgress, capturing,
                 isScreenshotInProgress>>

CollectInFront(data, result) == <<result>> \o data

\* The result of one capture is added after those gathered so far
\* (screenshotDataArray.push in the OCR loop, extraInfoResults.push at line 1122).
Collect(data, result) == Append(data, result)

\* The for-of iterator's test on the array object it walks (line 301).
HasNext(run) == run.idx + 1 < Len(run.arr)

\* One capture recognised (createWorker .. terminate, lines 313-352); then
\* either the next capture of the iterated array, or the analysis request
\* (lines 356-380).  A request made on an aborted signal is rejected at once
\* and the catch of line 461 sends INITIAL_SOLUTION_ERROR.
RecognizeDone(r) ==
  /\ runs[r].kind = "initial" /\ runs[r].pc = "ocr"
  /\ LET run == runs[r]
         data2 == Collect(run.data, run.cur)
     IN IF HasNext(run)
        THEN /\ runs' = [runs EXCEPT ![r] =
                  [run EXCEPT !.data = data2, !.idx = run.idx + 1,
                              !.cur = run.arr[run.idx + 2]]]
             /\ Send(<<>>)
        ELSE IF run.aborted
        THEN /\ runs' = [runs EXCEPT ![r] = DoneRun("initial")]
             /\ Send(<<Event("INITIAL_SOLUTION_ERROR", r, "processScreenshots")>>)
        ELSE /\ runs' = [runs EXCEPT ![r] =
                  [run EXCEPT !.data = data2, !.pc = "analysis", !.cur = 0,
                              !.arr = <<>>, !.idx = 0, !.live = FALSE]]
             /\ Send(<<>>)
  /\ UNCHANGED <<screenshotQueue, extraScreenshotQueue, view, problemInfo, hasDebugged,
                 currentProcessingAbortController, currentExtraProcessingAbortController,
                 nruns, pendingDeletes, pendingUnlinks, ncaptures>>
  /\ UNCHANGED <<normalized, normalizeResult, screenshotInProgress, capturing,
                 isScreenshotInProgress>>

\* Recognition throws: the catch of line 461.
RecognizeFails(r) ==
  /\ runs[r].kind = "initial" /\ runs[r].pc = "ocr"
  /\ runs' = [runs EXCEPT ![r] = DoneRun("initial")]
  /\ Send(<<Event("INITIAL_SOLUTION_ERROR", r, "processScreenshots")>>)
  /\ UNCHANGED <<screenshotQueue, extraScreenshotQueue, view, problemInfo, hasDebugged,
                 currentProcessingAbortController, currentExtraProcessingAbortController,
                 nruns, pendingDeletes, pendingUnlinks, ncaptures>>
  /\ UNCHANGED <<normalized, normalizeResult, screenshotInProgress, capturing,
                 isScreenshotInProgress>>

DeliversDespiteAbort(run) == TRUE

PublishedViewUnchanged == "queue"

\* The view set when a ProblemInfo is published (lines 426 and 457).
PublishedView == "solutions"

\* An axios request carrying a signal delivers a response only while the
\* signal is not aborted; an aborted signal rejects the request.
Delivers(run) == ~run.aborted

\* What response.data.response of the analysis call can be: text holding a
\* JSON object, text holding braces that do not parse, text without braces,
\* the empty string, or no text at all (undefined).
ResponseKinds == {"json", "malformed", "nojson", "empty", "missing"}

\* Line 383: responseText.substring(0, 100) is evaluated outside the inner
\* try; it throws a TypeError when the response carries no text.
HasText(kind) == kind # "missing"

\* extractJSONFromResponse (lines 475-487): the parsed object, or null when
\* nothing between braces is found or JSON.parse throws.
extractJSONFromResponse(kind) == IF kind = "json" THEN "object" ELSE "null"

\* How the published ProblemInfo was built (lines 389-411): the parsed
\* object, or fields extracted from the raw text.
PublishedForm(kind) ==
  IF extractJSONFromResponse(kind) # "null" THEN "parsed" ELSE "from-text"

\* The PROBLEM_EXTRACTED event of lines 417-420.
ProblemExtracted(r, kind) ==
  [ev |-> "PROBLEM_EXTRACTED", run |-> r, by |-> "processScreenshots",
   form |-> PublishedForm(kind)]

PublishEventsTwice(r, kind) ==
  <<ProblemExtracted(r, kind),
    [ProblemExtracted(r, kind) EXCEPT !.form = "last-resort"]>>

\* What the run sends to publish its ProblemInfo: the send of lines 417-420,
\* or, when building the object threw, the one of lines 449-452.
PublishEvents(r, kind) == <<ProblemExtracted(r, kind)>>

\* The analysis response arrives (lines 382-429): publish the ProblemInfo,
\* store it, switch the view, and issue the solution request
\* (generateSolutionsHelper up to its axios await, lines 942-997).  A
\* response without text throws at line 383 and lands in the catch of
\* line 461.
AnalysisResponds(r, kind) ==
  /\ runs[r].kind = "initial" /\ runs[r].pc = "analysis"
  /\ Delivers(runs[r])
  /\ IF HasText(kind)
     THEN /\ Send(PublishEvents(r, kind))
          /\ problemInfo' = NewProblemInfo(r)
          /\ view' = PublishedView
          /\ runs' = [runs EXCEPT ![r] =
               [runs[r] EXCEPT !.pc = "solution", !.data = <<>>, !.startQueue = <<>>,
                               !.sent = Append(runs[r].sent, "PROBLEM_EXTRACTED")]]
     ELSE /\ Send(<<Event("INITIAL_SOLUTION_ERROR", r, "processScreenshots")>>)
          /\ runs' = [runs EXCEPT ![r] = DoneRun("initial")]
          /\ UNCHANGED <<problemInfo, view>>
  /\ UNCHANGED <<screenshotQueue, extraScreenshotQueue, hasDebugged,
                 currentProcessingAbortController, currentExtraProcessingAbortController,
                 nruns, pendingDeletes, pendingUnlinks, ncaptures>>
  /\ UNCHANGED <<normalized, normalizeResult, screenshotInProgress, capturing,
                 isScreenshotInProgress>>

\* The analysis request fails (backend error, timeout, or abort): the
\* catch of line 461 sends INITIAL_SOLUTION_ERROR without looking at the signal.
AnalysisFails(r) ==
  /\ runs[r].kind = "initial" /\ runs[r].pc = "analysis"
  /\ runs' = [runs EXCEPT ![r] = DoneRun("initial")]
  /\ Send(<<Event("INITIAL_SOLUTION_ERROR", r, "processScreenshots")>>)
  /\ UNCHANGED <<screenshotQueue, extraScreenshotQueue, view, problemInfo, hasDebugged,
                 currentProcessingAbortController, currentExtraProcessingAbortController,
                 nruns, pendingDeletes, pendingUnlinks, ncaptures>>
  /\ UNCHANGED <<normalized, normalizeResult, screenshotInProgress, capturing,
                 isScreenshotInProgress>>

SolutionSuccessEventsNone(r) == <<>>

\* generateSolutionsHelper, lines 1005-1010: what it sends on a response.
SolutionSuccessEvents(r) == <<Event("SOLUTION_SUCCESS", r, "generateSolutionsHelper")>>

\* The solution response arrives (lines 999-1013).
SolutionResponds(r) ==
  /\ runs[r].kind = "initial" /\ runs[r].pc = "solution"
  /\ Delivers(runs[r])
  /\ Send(SolutionSuccessEvents(r))
  /\ view' = "solutions"
  /\ runs' = [runs EXCEPT ![r] = DoneRun("initial")]
  /\ UNCHANGED <<screenshotQueue, extraScreenshotQueue, problemInfo, hasDebugged,
                 currentProcessingAbortController, currentExtraProcessingAbortController,
                 nruns, pendingDeletes, pendingUnlinks, ncaptures>>
  /\ UNCHANGED <<normalized, normalizeResult, screenshotInProgress, capturing,
                 isScreenshotInProgress>>

\* The events of the catch of generateSolutionsHelper (lines 1014-1027).
SolutionCatch(r) ==
  IF runs[r].aborted THEN <<>>
  ELSE <<Event("INITIAL_SOLUTION_ERROR", r, "generateSolutionsHelper")>>

\* The solution request fails (backend error, timeout, abort, or a response
\* without text, on which removeMyThoughtsSection throws).
SolutionFails(r) ==
  /\ runs[r].kind = "initial" /\ runs[r].pc = "solution"
  /\ Send(SolutionCatch(r))
  /\ runs' = [runs EXCEPT ![r] = DoneRun("initial")]
  /\ UNCHANGED <<screenshotQueue, extraScreenshotQueue, view, problemInfo, hasDebugged,
                 currentProcessingAbortController, currentExtraProcessingAbortController,
                 nruns, pendingDeletes, pendingUnlinks, ncaptures>>
  /\ UNCHANGED <<normalized, normalizeResult, screenshotInProgress, capturing,
                 isScreenshotInProgress>>

\* The captures processExtraScreenshots hands to its helper: those whose
\* file could be read (lines 615-629).  `unreadable` are the queue positions
\* whose readFileSync threw.
ReadableShots(q, unreadable) ==
  LET Pick[i \in 0..Len(q)] ==
        IF i = 0 THEN <<>>
        ELSE IF i \in unreadable THEN Pick[i - 1] ELSE Append(Pick[i - 1], q[i])
  IN Pick[Len(q)]

\* The ProblemInfo the debug helper stores (lines 1129-1138).
WithExtraInfo(info, analyses) ==
  [info EXCEPT !.extraInfo = analyses, !.debugged = TRUE]

\* processExtraScreenshots from its call to the await inside
\* waitForInitialization (lines 580-590): cancelOngoingRequests first.
processExtraScreenshots ==
  /\ nruns < MaxRuns
  /\ LET r == nruns + 1
         rs == MarkSuperseded("debug", Abort(CancelTargets, runs))
     IN
     /\ nruns' = r
     /\ runs' = [rs EXCEPT ![r] =
          [IdleRun EXCEPT !.kind = "debug", !.pc = "init",
                          !.startInfo = problemInfo,
                          !.startQueue = extraScreenshotQueue]]
  /\ currentProcessingAbortController' = NoController
  /\ currentExtraProcessingAbortController' = NoController
  /\ hasDebugged' = FALSE
  /\ problemInfo' = NullInfo
  /\ Send(CancelEvents)
  /\ UNCHANGED <<screenshotQueue, extraScreenshotQueue, view, pendingDeletes, pendingUnlinks, ncaptures>>
  /\ UNCHANGED <<normalized, normalizeResult, screenshotInProgress, capturing,
                 isScreenshotInProgress>>

\* waitForInitialization gives up after its 50 polls (line 257): the catch of
\* line 634 sends DEBUG_ERROR and the finally of line 642 clears the controller.
InitializationTimesOut(r) ==
  /\ runs[r].kind = "debug" /\ runs[r].pc = "init"
  /\ Send(<<Event("DEBUG_ERROR", r, "processExtraScreenshots")>>)
  /\ currentExtraProcessingAbortController' = NoController
  /\ runs' = [runs EXCEPT ![r] = DoneRun("debug")]
  /\ UNCHANGED <<screenshotQueue, extraScreenshotQueue, view, problemInfo, hasDebugged,
                 currentProcessingAbortController, nruns, pendingDeletes, pendingUnlinks, ncaptures>>
  /\ UNCHANGED <<normalized, normalizeResult, screenshotInProgress, capturing,
                 isScreenshotInProgress>>

\* The renderer reports initialized: lines 592-631 and the helper up to its
\* first request (lines 1067-1117).  The controller is created only here.
\* Every path that returns in this segment runs the finally of line 642.
Initialized(r) ==
  /\ runs[r].kind = "debug" /\ runs[r].pc = "init"
  /\ \E unreadable \in SUBSET (1..Len(extraScreenshotQueue)) :
       LET shots == ReadableShots(extraScreenshotQueue, unreadable) IN
       IF Len(extraScreenshotQueue) = 0
       THEN /\ Send(<<Event("DEBUG_ERROR", r, "processExtraScreenshots")>>)
            /\ currentExtraProcessingAbortController' = NoController
            /\ runs' = [runs EXCEPT ![r] = DoneRun("debug")]
            /\ UNCHANGED problemInfo
       ELSE IF problemInfo = NullInfo
       THEN /\ Send(<<Event("DEBUG_START", r, "processExtraScreenshots"),
                            Event("DEBUG_ERROR", r, "processExtraScreenshotsHelper")>>)
            /\ currentExtraProcessingAbortController' = NoController
            /\ runs' = [runs EXCEPT ![r] = DoneRun("debug")]
            /\ UNCHANGED problemInfo
       ELSE IF Len(shots) = 0
       THEN /\ Send(<<Event("DEBUG_START", r, "processExtraScreenshots"),
                            Event("DEBUG_SUCCESS", r, "processExtraScreenshotsHelper")>>)
            /\ problemInfo' = WithExtraInfo(problemInfo, <<>>)
            /\ currentExtraProcessingAbortController' = NoController
            /\ runs' = [runs EXCEPT ![r] = DoneRun("debug")]
       ELSE /\ Send(<<Event("DEBUG_START", r, "processExtraScreenshots")>>)
            /\ currentExtraProcessingAbortController' = r
            /\ runs' = [runs EXCEPT ![r] =
                 [runs[r] EXCEPT !.pc = "infer", !.arr = shots, !.idx = 0,
                                 !.cur = shots[1],
                                 !.cpi = problemInfo, !.hasSignal = TRUE]]
            /\ UNCHANGED problemInfo
  /\ UNCHANGED <<screenshotQueue, extraScreenshotQueue, view, hasDebugged,
                 currentProcessingAbortController, nruns, pendingDeletes, pendingUnlinks, ncaptures>>
  /\ UNCHANGED <<normalized, normalizeResult, screenshotInProgress, capturing,
                 isScreenshotInProgress>>

\* The analysis of one capture returns (normalizeImage, readFileSync and the
\* request, lines 1094-1125); after the last one the helper stores the
\* merged ProblemInfo and sends DEBUG_SUCCESS, and the finally of line 642
\* clears the controller.
DebugInferResponds(r) ==
  /\ runs[r].kind = "debug" /\ runs[r].pc = "infer"
  /\ Delivers(runs[r])
  /\ LET run == runs[r]
         data2 == Collect(run.data, run.cur)
     IN IF HasNext(run)
        THEN /\ runs' = [runs EXCEPT ![r] =
                  [run EXCEPT !.data = data2, !.idx = run.idx + 1,
                              !.cur = run.arr[run.idx + 2]]]
             /\ Send(<<>>)
             /\ UNCHANGED <<problemInfo, currentExtraProcessingAbortController>>
        ELSE /\ problemInfo' = WithExtraInfo(run.cpi, data2)
             /\ Send(<<Event("DEBUG_SUCCESS", r, "processExtraScreenshotsHelper")>>)
             /\ currentExtraProcessingAbortController' = NoController
             /\ runs' = [runs EXCEPT ![r] = DoneRun("debug")]
  /\ UNCHANGED <<screenshotQueue, extraScreenshotQueue, view, hasDebugged,
                 currentProcessingAbortController, nruns, pendingDeletes, pendingUnlinks, ncaptures>>
  /\ UNCHANGED <<normalized, normalizeResult, screenshotInProgress, capturing,
                 isScreenshotInProgress>>

DebugCatchAlways(r) == <<Event("DEBUG_ERROR", r, "processExtraScreenshotsHelper")>>

\* The events of the catch of processExtraScreenshotsHelper (lines 1145-1158).
DebugCatch(r) ==
  IF runs[r].aborted THEN <<>>
  ELSE <<Event("DEBUG_ERROR", r, "processExtraScreenshotsHelper")>>

\* The analysis of a capture fails (file read error, backend error, timeout,
\* or abort); then the finally of line 642.
DebugInferFails(r) ==
  /\ runs[r].kind = "debug" /\ runs[r].pc = "infer"
  /\ Send(DebugCatch(r))
  /\ currentExtraProcessingAbortController' = NoController
  /\ runs' = [runs EXCEPT ![r] = DoneRun("debug")]
  /\ UNCHANGED <<screenshotQueue, extraScreenshotQueue, view, problemInfo, hasDebugged,
                 currentProcessingAbortController, nruns, pendingDeletes, pendingUnlinks, ncaptures>>
  /\ UNCHANGED <<normalized, normalizeResult, screenshotInProgress, capturing,
                 isScreenshotInProgress>>

\* Reset: cancelOngoingRequests followed by clearQueues, in one handler, and
\* the renderer is told to reset its view.  The fs.unlink callbacks of
\* clearQueues only log; they are followed in QueueSpec and not here.
Reset ==
  /\ currentProcessingAbortController' = NoController
  /\ currentExtraProcessingAbortController' = NoController
  /\ hasDebugged' = FALSE
  /\ Send(CancelEvents \o <<Event("RESET_VIEW", 0, "Reset")>>)
  /\ screenshotQueue' = <<>>
  /\ extraScreenshotQueue' = <<>>
  /\ problemInfo' = NullInfo
  /\ view' = "queue"
  /\ runs' = MarkReset(Abort(CancelTargets,
                 [r \in RunIds |-> [runs[r] EXCEPT !.live = FALSE]]))
  /\ UNCHANGED <<nruns, pendingDeletes, pendingUnlinks, ncaptures>>
  /\ UNCHANGED <<normalized, normalizeResult, screenshotInProgress, capturing,
                 isScreenshotInProgress>>

\* --------------------------------------------------------- normalizeImage
\* ProcessingHelper.normalizeImage (lines 647-722) and the static
\* ScreenshotHelper.normalizeImage (lines 199-259).  The normalized artifact
\* of a source is the file of the same base name in the normalized
\* directory; a file is absent, empty, or full (size > 0).
FileStates == {"absent", "empty", "full"}

Implementations == {"ProcessingHelper", "ScreenshotHelper"}

\* What one `magick` command does: it throws or not, and it leaves nothing,
\* an empty file or a full file at the output path.
MagickOutcomes == [threw : BOOLEAN, wrote : {"nothing", "empty", "full"}]

\* What the environment decides in one call: the source file, whether
\* `magick identify` succeeds, the two conversions, whether the copy works.
NormalizeInputs ==
  [source : FileStates, identifyOk : BOOLEAN, primary : MagickOutcomes,
   simplified : MagickOutcomes, copyOk : BOOLEAN]

\* The output path after a command that wrote `wrote` there.
Written(old, wrote) == IF wrote = "nothing" THEN old ELSE wrote

AlreadyNormalizedIfFull(art) == art = "full"

\* fs.existsSync(normalizedPath), lines 656 (ProcessingHelper) and 208.
AlreadyNormalized(art) == art # "absent"

\* The check after the primary conversion (lines 692, 235): the output
\* exists and its size is > 0.
Verified(art) == art = "full"

\* The primary strategy, lines 663-697: identify, convert, verify.
Primary(art, in) ==
  LET out == IF in.identifyOk THEN Written(art, in.primary.wrote) ELSE art
  IN [ok |-> in.identifyOk /\ ~in.primary.threw /\ Verified(out), artifact |-> out]

FallbacksCopyFirst(impl) ==
  IF impl = "ProcessingHelper" THEN <<"copy", "simplified">> ELSE <<"copy">>

\* The strategies tried after a failure of the primary one, in order:
\* ProcessingHelper lines 699-716; ScreenshotHelper lines 245-252 has the
\* copy only.
Fallbacks(impl) ==
  IF impl = "ProcessingHelper" THEN <<"simplified", "copy">> ELSE <<"copy">>

\* One fallback: the simplified conversion is taken as done when execSync
\* does not throw (no check of the output, lines 703-706); copyFileSync
\* throws on a missing source and leaves the source's content otherwise.
RunFallback(step, art, in) ==
  IF step = "simplified"
  THEN [ok |-> ~in.simplified.threw, artifact |-> Written(art, in.simplified.wrote)]
  ELSE IF in.source # "absent" /\ in.copyOk
       THEN [ok |-> TRUE, artifact |-> in.source]
       ELSE [ok |-> FALSE, artifact |-> art]

\* The fallbacks from position i on; `done` are the strategies run so far.
\* When the last one throws, the outer catch (lines 717-720, 254-258)
\* returns the input path: the promise is never rejected.
RECURSIVE Cascade(_, _, _, _, _)
Cascade(steps, i, art, in, done) ==
  IF i > Len(steps)
  THEN [path |-> "input", artifact |-> art, steps |-> done, rejected |-> FALSE]
  ELSE LET f == RunFallback(steps[i], art, in) IN
       IF f.ok
       THEN [path |-> "normalized", artifact |-> f.artifact,
             steps |-> Append(done, steps[i]), rejected |-> FALSE]
       ELSE Cascade(steps, i + 1, f.artifact, in, Append(done, steps[i]))

\* normalizeImage as a function of the artifact found and the outcomes.
NormalizeImage(impl, art, in) ==
  IF AlreadyNormalized(art)
  THEN [path |-> "normalized", artifact |-> art, steps |-> <<>>, rejected |-> FALSE]
  ELSE LET p1 == Primary(art, in) IN
       IF p1.ok
       THEN [path |-> "normalized", artifact |-> p1.artifact,
             steps |-> <<"primary">>, rejected |-> FALSE]
       ELSE Cascade(Fallbacks(impl), 1, p1.artifact, in, <<"primary">>)

\* One call of normalizeImage for source `input` (a capture is named by the
\* base name of its file, which is also the name of its artifact).  The one
\* await of the method, `magick identify`, comes before anything is written.
normalizeImage(impl, input, in) ==
  LET res == NormalizeImage(impl, normalized[input], in) IN
  /\ normalized' = [normalized EXCEPT ![input] = res.artifact]
  /\ normalizeResult' = [impl |-> impl, input |-> input, path |-> res.path,
                         steps |-> res.steps, rejected |-> res.rejected]
  /\ UNCHANGED <<screenshotQueue, extraScreenshotQueue, view, problemInfo, hasDebugged,
                 currentProcessingAbortController, currentExtraProcessingAbortController,
                 runs, nruns, pendingDeletes, pendingUnlinks, ncaptures, emitted, renderer,
                 screenshotInProgress, capturing, isScreenshotInProgress>>

\* ------------------------------------------------------------ behaviours
\* The pipelines with captures arriving and resets.
Next ==
  \/ CaptureTaken
  \/ processScreenshots
  \/ \E r \in RunIds : RecognizeDone(r)
  \/ \E r \in RunIds : RecognizeFails(r)
  \/ \E r \in RunIds, kind \in ResponseKinds : AnalysisResponds(r, kind)
  \/ \E r \in RunIds : AnalysisFails(r)
  \/ \E r \in RunIds : SolutionResponds(r)
  \/ \E r \in RunIds : SolutionFails(r)
  \/ processExtraScreenshots
  \/ \E r \in RunIds : InitializationTimesOut(r)
  \/ \E r \in RunIds : Initialized(r)
  \/ \E r \in RunIds : DebugInferResponds(r)
  \/ \E r \in RunIds : DebugInferFails(r)
  \/ Reset

Spec == Init /\ [][Next]_vars

\* The queue interface alone: any interleaving of its calls.
QueueNext ==
  \/ \E p \in Paths : addToScreenshotQueue(p)
  \/ \E v \in Views : setView(v)
  \/ clearQueues
  \/ \E err \in BOOLEAN : unlinkCallback(err)
  \/ \E p \in Paths : deleteScreenshotCall(p)
  \/ \E p \in Paths, ok \in BOOLEAN : deleteScreenshotReturn(p, ok)

QueueSpec == Init /\ [][QueueNext]_vars

\* Capturing alone: calls of takeScreenshot, their outcomes, and view changes.
CaptureNext ==
  \/ takeScreenshotCall
  \/ captureSucceeds
  \/ captureFails
  \/ captureThrows
  \/ \E v \in Views : setView(v)

CaptureSpec == Init /\ [][CaptureNext]_vars

\* Image normalization alone: any sequence of calls, whatever the tools do.
NormalizeNext ==
  \E impl \in Implementations, input \in Paths, in \in NormalizeInputs :
    normalizeImage(impl, input, in)

NormalizeSpec == Init /\ [][NormalizeNext]_vars

\* The initial pipeline alone, with captures and resets.
InitialNext ==
  \/ CaptureTaken
  \/ processScreenshots
  \/ \E r \in RunIds : RecognizeDone(r)
  \/ \E r \in RunIds : RecognizeFails(r)
  \/ \E r \in RunIds, kind \in ResponseKinds : AnalysisResponds(r, kind)
  \/ \E r \in RunIds : AnalysisFails(r)
  \/ \E r \in RunIds : SolutionResponds(r)
  \/ \E r \in RunIds : SolutionFails(r)
  \/ Reset

\* Every awaited call of a run settles: each request is answered, fails, or
\* runs into its timeout (90 s, 180 s), and recognition is taken to return
\* or throw (an assumption on tesseract: the code sets no limit on it).
CallsSettle ==
  \A r \in RunIds :
    /\ WF_vars(RecognizeDone(r) \/ RecognizeFails(r))
    /\ WF_vars((\E kind \in ResponseKinds : AnalysisResponds(r, kind)) \/ AnalysisFails(r))
    /\ WF_vars(SolutionResponds(r) \/ SolutionFails(r))

InitialSpec == Init /\ [][InitialNext]_vars /\ CallsSettle

\* Only what the code itself bounds: the axios requests (timeout 90 s at
\* lines 379 and 1115, 180 s at line 995, and the abort signal) and the
\* initialization poll (50 rounds, lines 243-258).  createWorker,
\* worker.recognize and worker.terminate (lines 313-352) take neither a
\* timeout nor the signal, so nothing is assumed of them.
BoundedCallsSettle ==
  \A r \in RunIds :
    /\ WF_vars((\E kind \in ResponseKinds : AnalysisResponds(r, kind)) \/ AnalysisFails(r))
    /\ WF_vars(SolutionResponds(r) \/ SolutionFails(r))
    /\ WF_vars(InitializationTimesOut(r) \/ Initialized(r))
    /\ WF_vars(DebugInferResponds(r) \/ DebugInferFails(r))

BoundedSpec == Init /\ [][Next]_vars /\ BoundedCallsSettle

TypeOK ==
  /\ view \in Views
  /\ nruns \in 0..MaxRuns
  /\ pendingDeletes \subseteq Paths
  /\ pendingUnlinks \in 0..MaxUnlinks
  /\ currentProcessingAbortController \in RunIds \cup {NoController}
  /\ currentExtraProcessingAbortController \in RunIds \cup {NoController}
  /\ \A r \in RunIds : runs[r].kind \in {"none", "initial", "debug"}

\* ---------------------------------------------------------------- claims
\* Events of run r sent by the segment that leads to the next state.
EmitsNext(ev, r) ==
  \E i \in 1..Len(emitted') : emitted'[i].ev = ev /\ emitted'[i].run = r

\* The segment is a continuation of run r.
RunStep(r) ==
  \/ RecognizeDone(r) \/ RecognizeFails(r)
  \/ (\E kind \in ResponseKinds : AnalysisResponds(r, kind)) \/ AnalysisFails(r)
  \/ SolutionResponds(r) \/ SolutionFails(r)
  \/ InitializationTimesOut(r) \/ Initialized(r)
  \/ DebugInferResponds(r) \/ DebugInferFails(r)

NoDuplicates(q) == \A i, j \in 1..Len(q) : q[i] = q[j] => i = j

\* C1: in every state reachable by any interleaving of addToScreenshotQueue,
\* deleteScreenshot, clearQueues and setView calls, the primary queue holds
\* at most MAX_SCREENSHOTS (2) paths.
C1_PrimaryBounded == Len(screenshotQueue) <= MAX_SCREENSHOTS

\* A full primary queue, reached with view changes and a delete in between.
C1_Witness ==
  /\ Len(screenshotQueue) = MAX_SCREENSHOTS
  /\ Len(extraScreenshotQueue) > 0
  /\ view = "queue"
  /\ pendingDeletes # {}

\* The queue addToScreenshotQueue(p) would append to.
TargetQueue == IF view = "queue" THEN screenshotQueue ELSE extraScreenshotQueue

\* C2: addToScreenshotQueue of a path already present in its target queue
\* (primary in view `queue`, secondary otherwise) leaves both queues
\* unchanged, so neither queue ever holds the same path twice.
C2_DuplicateIsNoOp ==
  [][/\ \A p \in Paths :
          (addToScreenshotQueue(p) /\ Includes(TargetQueue, p))
            => UNCHANGED <<screenshotQueue, extraScreenshotQueue>>
     /\ NoDuplicates(screenshotQueue') /\ NoDuplicates(extraScreenshotQueue')]_vars

\* C3: once a second processScreenshots has started while an earlier initial
\* run is in flight, the earlier run sends no PROBLEM_EXTRACTED and stores no
\* ProblemInfo, whichever stage it was in.
C3_SupersededPublishesNothing ==
  [][\A r \in RunIds :
       (runs[r].kind = "initial" /\ runs[r].superseded)
         => /\ ~EmitsNext("PROBLEM_EXTRACTED", r)
            /\ (RunStep(r) => problemInfo' = problemInfo)]_vars

\* An earlier initial run, superseded while its analysis request was in
\* flight, with the newer run in flight too.
C3_Witness ==
  \E r, n \in RunIds :
    /\ r < n
    /\ runs[r].kind = "initial" /\ runs[r].superseded /\ runs[r].pc = "analysis"
    /\ runs[n].kind = "initial" /\ InFlight(n)

\* C4: a run superseded by a newer run of its kind sends no error event
\* afterwards (no INITIAL_SOLUTION_ERROR from an initial run, no DEBUG_ERROR
\* from a debug run), whichever stage it was in.
C4_SupersededIsSilent ==
  [][\A r \in RunIds :
       runs[r].superseded
         => /\ ~EmitsNext("INITIAL_SOLUTION_ERROR", r)
            /\ ~EmitsNext("DEBUG_ERROR", r)]_vars

\* C5: after a reset (cancelOngoingRequests, clearQueues) an initial run that
\* was in flight sends no PROBLEM_EXTRACTED, SOLUTION_SUCCESS or
\* INITIAL_SOLUTION_ERROR.
C5_ResetSuppressesEvents ==
  [][\A r \in RunIds :
       (runs[r].kind = "initial" /\ runs[r].resetSeen)
         => /\ ~EmitsNext("PROBLEM_EXTRACTED", r)
            /\ ~EmitsNext("SOLUTION_SUCCESS", r)
            /\ ~EmitsNext("INITIAL_SOLUTION_ERROR", r)]_vars

\* C6: right after a reset both queues are empty, the ProblemInfo is null and
\* the view is `queue`; and no run started before the reset changes the
\* ProblemInfo or the view afterwards.
C6_ResetIsFinal ==
  [][/\ Reset => /\ screenshotQueue' = <<>> /\ extraScreenshotQueue' = <<>>
                 /\ problemInfo' = NullInfo /\ view' = "queue"
     /\ \A r \in RunIds :
          (runs[r].resetSeen /\ RunStep(r)) => UNCHANGED <<problemInfo, view>>]_vars

\* The un-aborted runs of a kind that hold a cancellation token.
ActiveTokens(kind) ==
  {r \in RunIds : runs[r].kind = kind /\ InFlight(r)
                  /\ runs[r].hasSignal /\ ~runs[r].aborted}

\* C7: starting a debug run does not cancel an initial run in flight, and
\* starting an initial run does not cancel a debug run in flight.
C7_IndependentDomains ==
  [][/\ processExtraScreenshots =>
          \A r \in ActiveTokens("initial") : ~runs'[r].aborted
     /\ processScreenshots =>
          \A r \in ActiveTokens("debug") : ~runs'[r].aborted]_vars

\* C8: at every moment at most one initial run and at most one debug run is
\* in flight with an un-cancelled token.
C8_OneActiveRunPerKind ==
  /\ Cardinality(ActiveTokens("initial")) <= 1
  /\ Cardinality(ActiveTokens("debug")) <= 1

IsPrefix(a, b) == Len(a) <= Len(b) /\ \A i \in 1..Len(a) : a[i] = b[i]

\* C9: an initial run processes exactly the captures that were in the primary
\* queue when it started draining, in that order, whatever is enqueued (or
\* evicted) while it recognises.
C9_ProcessesSnapshot ==
  \A r \in RunIds :
    /\ (runs[r].kind = "initial" /\ runs[r].pc = "ocr")
         => IsPrefix(Append(runs[r].data, runs[r].cur), runs[r].startQueue)
    /\ (runs[r].kind = "initial" /\ runs[r].pc = "analysis")
         => runs[r].data = runs[r].startQueue

\* The segment starts an initial run.
StartsInitial == nruns' = nruns + 1 /\ runs'[nruns'].kind = "initial"

\* C10: processScreenshots on an empty primary queue sends NO_SCREENSHOTS
\* exactly once and no INITIAL_START, and leaves the view, the ProblemInfo
\* and both queues unchanged.
C10_EmptyQueueTrigger ==
  [][(StartsInitial /\ Len(screenshotQueue) = 0)
       => /\ Len(SelectSeq(emitted', LAMBDA e : e.ev = "NO_SCREENSHOTS")) = 1
          /\ \A i \in 1..Len(emitted') : emitted'[i].ev # "INITIAL_START"
          /\ UNCHANGED <<view, problemInfo, screenshotQueue, extraScreenshotQueue>>
    ]_vars

\* A trigger on an empty queue has just been served, after an earlier run.
C10_Witness ==
  /\ emitted = <<Event("NO_SCREENSHOTS", nruns, "processScreenshots")>>
  /\ nruns > 1
  /\ Len(screenshotQueue) = 0

\* Run r sent event ev in the last segment.
Emitted(ev, r) ==
  \E i \in 1..Len(emitted) : emitted[i].ev = ev /\ emitted[i].run = r

\* A debug run triggered with a stored ProblemInfo and a non-empty secondary
\* queue, neither superseded nor reset since.
DebugFromStored(r) ==
  /\ runs[r].kind = "debug" /\ InFlight(r)
  /\ runs[r].startInfo # NullInfo /\ Len(runs[r].startQueue) > 0
  /\ ~runs[r].superseded /\ ~runs[r].resetSeen

\* C11: a debug run triggered with a stored ProblemInfo and a non-empty
\* secondary queue, whose calls all succeed and which is neither superseded
\* nor reset, ends in DEBUG_SUCCESS carrying that ProblemInfo with extraInfo
\* set to the analyses in queue order: none of its successful steps sends
\* DEBUG_ERROR, and its DEBUG_SUCCESS stores the ProblemInfo it started from.
C11_DebugMergesIntoStored ==
  [][\A r \in RunIds :
       (DebugFromStored(r) /\ (Initialized(r) \/ DebugInferResponds(r)))
         => /\ ~EmitsNext("DEBUG_ERROR", r)
            /\ EmitsNext("DEBUG_SUCCESS", r)
                 => /\ problemInfo' # NullInfo
                    /\ problemInfo'.run = runs[r].startInfo.run
                    /\ IsPrefix(runs[r].startQueue, problemInfo'.extraInfo)]_vars

\* C12: a debug run that fails (DEBUG_ERROR) leaves the stored ProblemInfo as
\* it was before the debug trigger (unless a newer initial run has published
\* its own in the meantime).
C12_DebugFailureKeepsInfo ==
  [][\A r \in RunIds :
       (/\ runs[r].kind = "debug" /\ EmitsNext("DEBUG_ERROR", r)
        /\ ~runs[r].superseded /\ ~runs[r].resetSeen)
         => \/ problemInfo' = runs[r].startInfo
            \/ (problemInfo' # NullInfo /\ problemInfo'.run > r)]_vars

\* C13: whenever an initial run fails (INITIAL_SOLUTION_ERROR, the run not
\* having been cancelled) while no ProblemInfo is stored, the view is `queue`
\* after the failure, in the main process and in the renderer.
C13_FailureReturnsToQueue ==
  [][\A r \in RunIds :
       (/\ runs[r].kind = "initial" /\ ~runs[r].aborted
        /\ EmitsNext("INITIAL_SOLUTION_ERROR", r)
        /\ problemInfo' = NullInfo)
         => view' = "queue" /\ renderer'.view = "queue"]_vars

\* C14: if the solution call of an initial run fails after the run published
\* a ProblemInfo, the stored ProblemInfo stays the published one, exactly one
\* INITIAL_SOLUTION_ERROR is sent, and the view is not returned to `queue`,
\* in the main process and in the renderer.
C14_LateFailureKeepsResult ==
  [][\A r \in RunIds :
       (SolutionFails(r) /\ ~runs[r].aborted)
         => /\ problemInfo' = problemInfo
            /\ problemInfo' # NullInfo /\ problemInfo'.run = r
            /\ Len(SelectSeq(emitted', LAMBDA e : e.ev = "INITIAL_SOLUTION_ERROR")) = 1
            /\ view' # "queue"
            /\ renderer'.view # "queue"]_vars

\* The events of an initial run come in the order INITIAL_START,
\* PROBLEM_EXTRACTED, SOLUTION_SUCCESS.
C15_Order ==
  [][\A r \in RunIds :
       /\ EmitsNext("INITIAL_START", r) => runs[r].sent = <<>>
       /\ EmitsNext("PROBLEM_EXTRACTED", r) => runs[r].sent = <<"INITIAL_START">>
       /\ EmitsNext("SOLUTION_SUCCESS", r)
            => runs[r].sent = <<"INITIAL_START", "PROBLEM_EXTRACTED">>]_vars

\* An initial run in flight sends SOLUTION_SUCCESS unless one of its calls
\* fails (INITIAL_SOLUTION_ERROR) or it is cancelled.
C15_Eventually ==
  \A r \in RunIds :
    (runs[r].kind = "initial" /\ InFlight(r))
      ~> \/ Emitted("SOLUTION_SUCCESS", r)
         \/ Emitted("INITIAL_SOLUTION_ERROR", r)
         \/ runs[r].aborted

\* C15: an initial run over a non-empty primary queue whose recognition and
\* inference calls all succeed and that is not cancelled sends INITIAL_START,
\* then PROBLEM_EXTRACTED, then SOLUTION_SUCCESS, and it eventually sends
\* SOLUTION_SUCCESS.
C15_InitialRunCompletes == C15_Order /\ C15_Eventually

\* A second run has just sent its SOLUTION_SUCCESS.
C15_Witness ==
  \E r \in RunIds :
    /\ r > 1
    /\ emitted = <<Event("SOLUTION_SUCCESS", r, "generateSolutionsHelper")>>
    /\ problemInfo # NullInfo /\ problemInfo.run = r

\* C16: whenever the analysis call of an un-cancelled initial run returns a
\* response, the run publishes a ProblemInfo through PROBLEM_EXTRACTED
\* whatever the response contains (valid JSON, malformed JSON, no JSON, empty
\* or missing text), and sends no INITIAL_SOLUTION_ERROR.
C16_AnyResponseIsPublished ==
  [][\A r \in RunIds, kind \in ResponseKinds :
       AnalysisResponds(r, kind)
         => /\ EmitsNext("PROBLEM_EXTRACTED", r)
            /\ ~EmitsNext("INITIAL_SOLUTION_ERROR", r)
            /\ problemInfo' # NullInfo]_vars

\* C17: after deleteScreenshot(path) returns success, path is in neither
\* queue, whichever queue held it and whatever the view is at that moment.
C17_DeleteRemovesEverywhere ==
  [][\A p \in Paths :
       deleteScreenshotReturn(p, TRUE)
         => /\ ~Includes(screenshotQueue', p)
            /\ ~Includes(extraScreenshotQueue', p)]_vars

\* C18: if the storage delete fails, deleteScreenshot(path) returns
\* success = false with an error and leaves both queues as they were; a
\* reference leaves a queue only when the storage delete succeeded.
C18_FailedDeleteKeepsReference ==
  [][\A p \in Paths :
       /\ deleteScreenshotReturn(p, FALSE)
            => /\ UNCHANGED <<screenshotQueue, extraScreenshotQueue>>
               /\ Len(emitted') = 1
               /\ emitted'[1].ev = "deleteScreenshot"
               /\ ~emitted'[1].success /\ emitted'[1].error
       /\ \A unlinked \in BOOLEAN :
            (/\ deleteScreenshotReturn(p, unlinked)
             /\ <<screenshotQueue, extraScreenshotQueue>>'
                  # <<screenshotQueue, extraScreenshotQueue>>)
              => unlinked]_vars

\* A delete has just failed while the queue of the current view holds paths.
C18_Witness ==
  /\ Len(emitted) = 1
  /\ emitted[1].ev = "deleteScreenshot"
  /\ ~emitted[1].success
  /\ Len(TargetQueue) > 0

\* C19: after clearQueues both queues are empty, whether each underlying
\* file delete succeeds or fails.
C19_ClearAlwaysEmpties ==
  [][/\ clearQueues => /\ screenshotQueue' = <<>>
                       /\ extraScreenshotQueue' = <<>>
     /\ \A err \in BOOLEAN :
          unlinkCallback(err)
            => UNCHANGED <<screenshotQueue, extraScreenshotQueue>>]_vars

\* Both queues were cleared while they held several paths, whose file
\* deletes have not reported yet.
C19_Witness ==
  /\ screenshotQueue = <<>> /\ extraScreenshotQueue = <<>>
  /\ pendingUnlinks >= 2

\* C20: an addToScreenshotQueue that is not rejected as a duplicate appends
\* the path at the tail of the primary queue exactly when the view is
\* `queue`, and at the tail of the secondary queue when the view is
\* `solutions` or `debug`; the other queue is left unchanged.
C20_RoutedByView ==
  [][\A p \in Paths :
       (addToScreenshotQueue(p) /\ ~Includes(screenshotQueue, p))
         => IF view = "queue"
            THEN /\ Len(screenshotQueue') > 0
                 /\ screenshotQueue'[Len(screenshotQueue')] = p
                 /\ \/ SubSeq(screenshotQueue', 1, Len(screenshotQueue') - 1)
                         = screenshotQueue
                    \/ /\ Len(screenshotQueue) > 0
                       /\ SubSeq(screenshotQueue', 1, Len(screenshotQueue') - 1)
                            = Tail(screenshotQueue)
                 /\ UNCHANGED extraScreenshotQueue
            ELSE /\ extraScreenshotQueue' = Append(extraScreenshotQueue, p)
                 /\ UNCHANGED screenshotQueue]_vars

\* Paths were routed to the secondary queue in view `debug`, next to a
\* non-empty primary queue.
C20_Witness ==
  /\ view = "debug"
  /\ Len(extraScreenshotQueue) > 0
  /\ Len(screenshotQueue) > 0
  /\ emitted = <<>>

\* C21: when the view is `queue` and the primary queue already holds 2
\* paths, addToScreenshotQueue of a path not in the queue removes the head
\* entry and appends the new path at the tail; three distinct captures 1, 2,
\* 3 enqueued into an empty primary queue leave exactly <<2, 3>>.
C21_EvictsOldest ==
  [][/\ \A p \in Paths :
          (/\ addToScreenshotQueue(p)
           /\ view = "queue"
           /\ Len(screenshotQueue) = 2
           /\ ~Includes(screenshotQueue, p))
            => screenshotQueue' = <<screenshotQueue[2], p>>
     /\ PushPrimary(PushPrimary(PushPrimary(<<>>, 1), 2), 3) = <<2, 3>>]_vars

\* The primary queue after captures 1, 2, 3: the head was evicted.
C21_Witness ==
  /\ screenshotQueue = <<2, 3>>
  /\ view = "queue"
  /\ extraScreenshotQueue = <<>>
  /\ pendingDeletes = {}
  /\ pendingUnlinks = 0

\* C22: in every reachable state no capture path is held by both the
\* primary and the secondary queue, also when the view changes between two
\* enqueues of the same path.
C22_QueuesDisjoint ==
  \A p \in Paths : ~(Includes(screenshotQueue, p) /\ Includes(extraScreenshotQueue, p))

\* C23: whenever addToScreenshotQueue evicts the oldest primary-queue entry
\* because the queue is at capacity, a delete of the evicted entry's file
\* is requested in the same operation.
C23_EvictionDeletesFile ==
  [][\A p \in Paths :
       (/\ addToScreenshotQueue(p)
        /\ view = "queue"
        /\ Len(screenshotQueue) >= MAX_SCREENSHOTS
        /\ ~Includes(screenshotQueue, p))
         => \/ pendingUnlinks' > pendingUnlinks
            \/ screenshotQueue[1] \in pendingDeletes']_vars

\* C25: normalizeImage is idempotent: a call for a source whose normalized
\* artifact already exists returns the normalized path and performs no
\* image processing and no copy (the artifact is left as it was).
C25_Idempotent ==
  [][(normalizeResult'.impl # "none" /\ normalized[normalizeResult'.input] # "absent")
       => /\ normalizeResult'.path = "normalized"
          /\ normalizeResult'.steps = <<>>
          /\ normalized' = normalized]_vars

\* A second call found the artifact written by an earlier one.
C25_Witness ==
  /\ normalizeResult.impl = "ScreenshotHelper"
  /\ normalizeResult.path = "normalized"
  /\ normalizeResult.steps = <<>>
  /\ normalized[normalizeResult.input] = "full"

\* The strategies a call went through are the first ones of `expected`.
TriedInOrder(expected) ==
  /\ Len(normalizeResult.steps) <= Len(expected)
  /\ \A i \in 1..Len(normalizeResult.steps) : normalizeResult.steps[i] = expected[i]

\* Every strategy of the implementation fails on these outcomes: the
\* primary one (identify or the conversion throws, or no full output), the
\* simplified one where there is one, and the copy.
AllStrategiesFail(impl, in) ==
  /\ ~in.identifyOk \/ in.primary.threw \/ in.primary.wrote # "full"
  /\ impl = "ProcessingHelper" => in.simplified.threw
  /\ in.source = "absent" \/ ~in.copyOk

C27_ResultIsNonEmpty ==
  normalizeResult.path = "normalized" => normalized[normalizeResult.input] = "full"

\* C24: no run blocks indefinitely: every external call of a run (each
\* recognition call, each inference call, the UI-initialized poll) is
\* bounded by a local timeout or can be aborted by the run's token, so
\* every started initial or debug run eventually terminates even if a
\* backend never answers.
C24_EveryRunTerminates ==
  \A r \in RunIds : InFlight(r) ~> ~InFlight(r)

\* C28: once an initial run's token is cancelled, the run starts no further
\* stage: it begins the recognition of no remaining queued capture and
\* issues no inference call.
C28_CancelledStartsNoStage ==
  [][\A r \in RunIds :
       (runs[r].kind = "initial" /\ runs[r].aborted /\ RunStep(r))
         => runs'[r].pc \notin {"ocr", "analysis", "solution"}]_vars

\* C29: in the step in which an initial run emits PROBLEM_EXTRACTED, the
\* stored ProblemInfo becomes the published one and the view becomes
\* `solutions` before any other command is served, so a capture enqueued
\* after that event is routed to the secondary queue.
C29_PublishSwitchesView ==
  [][/\ \A r \in RunIds :
          (runs[r].kind = "initial" /\ EmitsNext("PROBLEM_EXTRACTED", r))
            => /\ problemInfo' = NewProblemInfo(r)
               /\ view' = "solutions"
     /\ (CaptureTaken /\ view = "solutions" /\ problemInfo # NullInfo)
          => /\ extraScreenshotQueue' = Append(extraScreenshotQueue, ncaptures + 1)
             /\ UNCHANGED screenshotQueue]_vars

\* A capture taken after the publication, while the solution request of the
\* publishing run is still open, sits in the secondary queue.
C29_Witness ==
  \E r \in RunIds :
    /\ runs[r].kind = "initial" /\ runs[r].pc = "solution"
    /\ problemInfo = NewProblemInfo(r)
    /\ view = "solutions"
    /\ Len(extraScreenshotQueue) > 0
    /\ extraScreenshotQueue[Len(extraScreenshotQueue)] = ncaptures

\* C30: when processScreenshots is triggered while a ProblemInfo is stored
\* (regeneration), the stored ProblemInfo is discarded when the run starts,
\* so that no old ProblemInfo is stored between INITIAL_START and the new
\* PROBLEM_EXTRACTED of that run.
C30_RegenerationDiscardsInfo ==
  [][(/\ processScreenshots
      /\ problemInfo # NullInfo
      /\ ~QueueIsEmpty(screenshotQueue))
       => problemInfo' = NullInfo]_vars

\* A segment of one of the two pipelines.
PipelineStep ==
  \/ processScreenshots
  \/ processExtraScreenshots
  \/ \E r \in RunIds : RunStep(r)

\* C31: neither pipeline changes the queues: processScreenshots and
\* processExtraScreenshots, with their failure and cancellation paths, leave
\* the contents and order of the primary and the secondary queue unchanged.
C31_PipelinesKeepQueues ==
  [][PipelineStep => UNCHANGED <<screenshotQueue, extraScreenshotQueue>>]_vars

\* Both queues hold captures after an initial run and a debug run ended,
\* the last segment being a failure.
C31_Witness ==
  /\ \E r \in RunIds : runs[r].kind = "initial" /\ runs[r].pc = "done"
  /\ \E r \in RunIds : runs[r].kind = "debug" /\ runs[r].pc = "done"
  /\ Len(screenshotQueue) > 0 /\ Len(extraScreenshotQueue) > 0
  /\ \E i \in 1..Len(emitted) : emitted[i].ev \in {"DEBUG_ERROR", "INITIAL_SOLUTION_ERROR"}

\* C32: a debug run that reaches DEBUG_SUCCESS has sent every capture that
\* was in the secondary queue at its start to inference (no reset since);
\* none is skipped silently, also when a capture's file cannot be read.
C32_DebugSendsEveryCapture ==
  [][\A r \in RunIds :
       (runs[r].kind = "debug" /\ ~runs[r].resetSeen /\ EmitsNext("DEBUG_SUCCESS", r))
         => \A i \in 1..Len(runs[r].startQueue) :
              Includes(problemInfo'.extraInfo, runs[r].startQueue[i])]_vars

\* Capture files are numbered in the order they were taken, which is the
\* order of both queues.
InQueueOrder(seq) == \A i, j \in 1..Len(seq) : i < j => seq[i] < seq[j]

\* C33: within one run captures are processed one at a time in queue order
\* (the next capture starts only when the result of the previous one has
\* been gathered), and the recognition text of an initial run and the
\* extraInfo of a debug run hold the per-capture results in queue order.
C33_OneAtATimeInOrder ==
  [][\A r \in RunIds :
       (RunStep(r) /\ runs[r].pc \in {"ocr", "infer"})
         => /\ runs'[r].pc = runs[r].pc
                 => /\ runs'[r].data = Append(runs[r].data, runs[r].cur)
                    /\ runs'[r].idx = runs[r].idx + 1
                    /\ runs'[r].cur = runs'[r].arr[runs'[r].idx + 1]
                    /\ InQueueOrder(Append(runs'[r].data, runs'[r].cur))
            /\ runs'[r].pc = "analysis"
                 => /\ runs'[r].data = Append(runs[r].data, runs[r].cur)
                    /\ InQueueOrder(runs'[r].data)
            /\ EmitsNext("DEBUG_SUCCESS", r)
                 => /\ problemInfo'.extraInfo = Append(runs[r].data, runs[r].cur)
                    /\ InQueueOrder(problemInfo'.extraInfo)]_vars

\* An initial run has recognised captures 1 and 2 and waits for the analysis.
C33_Witness ==
  \E r \in RunIds :
    /\ runs[r].kind = "initial" /\ runs[r].pc = "analysis"
    /\ runs[r].data = <<1, 2>>

\* C34: the completion of a superseded debug run never clears the
\* controller of a newer debug run: whenever a debug run has created its
\* controller, is not cancelled and is still in flight,
\* currentExtraProcessingAbortController refers to that run's controller.
C34_ControllerIsOwn ==
  \A r \in RunIds :
    (runs[r].kind = "debug" /\ InFlight(r) /\ runs[r].hasSignal /\ ~runs[r].aborted)
      => currentExtraProcessingAbortController = r

\* C35: whenever the view is `solutions` or `debug`, a ProblemInfo is
\* stored; the stored ProblemInfo is null only while the view is `queue`.
C35_InfoStoredOutsideQueue ==
  view \in {"solutions", "debug"} => problemInfo # NullInfo

\* The NO_SCREENSHOTS events of the segment leading to the next state.
NoScreenshotsNext == {i \in 1..Len(emitted') : emitted'[i].ev = "NO_SCREENSHOTS"}

\* C36 as stated: NO_SCREENSHOTS is emitted only by a process trigger that
\* found the primary queue empty; cancelling runs (cancelOngoingRequests,
\* also the one at the start of a debug run) never emits it.
C36_OnlyOnEmptyTrigger ==
  [][\A i \in NoScreenshotsNext :
       /\ processScreenshots /\ QueueIsEmpty(screenshotQueue)
       /\ emitted'[i].by = "processScreenshots"]_vars

\* C36, amended: NO_SCREENSHOTS is emitted only by a process trigger that
\* found the primary queue empty, and by cancelOngoingRequests (also the one
\* at the start of a debug run) when one of the two controllers was set; a
\* segment emits it at most once.
C36_EmptyTriggerOrCancel ==
  [][/\ Cardinality(NoScreenshotsNext) <= 1
     /\ \A i \in NoScreenshotsNext :
          \/ /\ processScreenshots /\ QueueIsEmpty(screenshotQueue)
             /\ emitted'[i].by = "processScreenshots"
          \/ /\ processExtraScreenshots \/ Reset
             /\ WasCancelled
             /\ emitted'[i].by = "cancelOngoingRequests"]_vars

\* A debug run has just started and its cancelOngoingRequests sent
\* NO_SCREENSHOTS.
C36_Witness ==
  /\ nruns > 0 /\ runs[nruns].kind = "debug" /\ runs[nruns].pc = "init"
  /\ \E i \in 1..Len(emitted) :
       emitted[i].ev = "NO_SCREENSHOTS" /\ emitted[i].by = "cancelOngoingRequests"

\* How many events `ev` of run r the segment to the next state sends.
CountNext(ev, r) ==
  Cardinality({i \in 1..Len(emitted') : emitted'[i].ev = ev /\ emitted'[i].run = r})

\* C37 as stated: a debug run is all-or-nothing: extraInfo is written only
\* after the inference call of every capture has succeeded; if the call for
\* the k-th capture fails, the analyses of captures 1..k-1 are not stored,
\* no DEBUG_SUCCESS is emitted and DEBUG_ERROR is emitted exactly once.
C37_AllOrNothing ==
  [][\A r \in RunIds :
       /\ (DebugInferResponds(r) /\ HasNext(runs[r])) => problemInfo' = problemInfo
       /\ DebugInferFails(r)
            => /\ problemInfo' = problemInfo
               /\ CountNext("DEBUG_SUCCESS", r) = 0
               /\ CountNext("DEBUG_ERROR", r) = 1]_vars

\* C37, amended: as stated, except that DEBUG_ERROR is emitted exactly once
\* unless the run's token was cancelled, in which case the failing call
\* emits no event at all.
C37_AllOrNothingSilentOnCancel ==
  [][\A r \in RunIds :
       /\ (DebugInferResponds(r) /\ HasNext(runs[r])) => problemInfo' = problemInfo
       /\ DebugInferFails(r)
            => /\ problemInfo' = problemInfo
               /\ CountNext("DEBUG_SUCCESS", r) = 0
               /\ IF runs[r].aborted
                  THEN emitted' = <<>>
                  ELSE CountNext("DEBUG_ERROR", r) = 1 /\ Len(emitted') = 1]_vars

\* The call for a capture of a debug run failed: one DEBUG_ERROR from the
\* helper, and the stored ProblemInfo carries no analyses.
C37_Witness ==
  /\ Len(emitted) = 1
  /\ emitted[1].ev = "DEBUG_ERROR" /\ emitted[1].by = "processExtraScreenshotsHelper"
  /\ problemInfo # NullInfo /\ ~problemInfo.debugged
  /\ Len(extraScreenshotQueue) = 2

\* C38: at most one takeScreenshot call is inside its capture section at a
\* time: a call made while screenshotInProgress is true returns the empty
\* string, enqueues nothing and emits no SCREENSHOT_IN_PROGRESS event.
C38_OneCaptureAtATime ==
  [][/\ capturing' <= 1
     /\ (takeScreenshotCall /\ screenshotInProgress)
          => /\ emitted' = <<TakeReply(NoPath, FALSE)>>
             /\ UNCHANGED <<screenshotQueue, extraScreenshotQueue, ncaptures,
                            capturing, screenshotInProgress>>]_vars

\* A second call was turned away while the first is still capturing.
C38_Witness ==
  /\ capturing = 1 /\ screenshotInProgress
  /\ emitted = <<TakeReply(NoPath, FALSE)>>
  /\ Len(screenshotQueue) > 0

\* C39: SCREENSHOT_IN_PROGRESS events alternate: every attempt that emits
\* SCREENSHOT_IN_PROGRESS(true) later emits SCREENSHOT_IN_PROGRESS(false)
\* exactly once, on the success, the capture-failure and the exception
\* path, and screenshotInProgress is false whenever no attempt is executing.
C39_ProgressAlternates ==
  [][/\ \A i \in 1..Len(emitted') :
          emitted'[i].ev = "SCREENSHOT_IN_PROGRESS"
            => emitted'[i].value
                 # ShowProgress(isScreenshotInProgress, SubSeq(emitted', 1, i - 1))
     /\ capturing' = 0 => ~screenshotInProgress']_vars

\* C40: a single initial run emits PROBLEM_EXTRACTED at most once and
\* issues the solution request at most once; a ProblemInfo already
\* published by the run is never overwritten by a last-resort ProblemInfo.
C40_PublishedOnce ==
  [][\A r \in RunIds :
       runs[r].kind = "initial"
         => /\ CountNext("PROBLEM_EXTRACTED", r) <= 1
            /\ Includes(runs[r].sent, "PROBLEM_EXTRACTED")
                 => /\ CountNext("PROBLEM_EXTRACTED", r) = 0
                    /\ RunStep(r) => /\ problemInfo' = problemInfo
                                      /\ runs'[r].pc # "solution"]_vars

\* A run published its ProblemInfo and then its solution request failed.
C40_Witness ==
  \E r \in RunIds :
    /\ problemInfo = NewProblemInfo(r)
    /\ emitted = <<Event("INITIAL_SOLUTION_ERROR", r, "generateSolutionsHelper")>>

====
